---------------------------- MODULE Spec2Model ----------------------------
(***************************************************************************)
(* Model of src/_sandbox_/pathfinder_final.py: the segment predicate       *)
(* overlapping, the clearance test no_obstacles, the direct router         *)
(* getpts_simple, the grid search getpts_astar and the composer make.      *)
(*                                                                         *)
(* Points are pairs <<x, y>> of integers.  The values overlapping computes *)
(* by division (slopes, intercepts, intersection points) are kept as exact *)
(* fractions <<numerator, denominator>> on the inputs on which the         *)
(* floating-point arithmetic of the code is exact (ExactCall), and as      *)
(* binary64 floats, rounded as the code rounds them, on the others.  Hop   *)
(* endpoints are drawn from the even lattice, so that the midpoints        *)
(* (a + b) / 2 of getpts_simple are integers as well.                      *)
(***************************************************************************)
EXTENDS Integers, Sequences, FiniteSets

VARIABLES
    components,   \* self.design.components: the set of qgeometry_bounds()
    m1, n1,       \* connector1.middle, connector1.normal
    m2, n2,       \* connector2.middle, connector2.normal
    w,            \* p.cpw_width
    leadstart,    \* p.leadin.start
    leadend,      \* p.leadin.end
    anchors,      \* list(p.anchors.values())
    step_size,    \* p.step_size
    pts,          \* self._pts
    pc,           \* position in make / getpts_astar
    hop,          \* index of coord in the for loop of make
    astar,        \* the last getpts_astar call: arguments and returned route
    h,            \* the heap h (entries in push order)
    pathmapper,   \* pathmapper: key -> <<length_travelled, path>>
    visited,      \* visited
    popped,       \* (tot_dist, x, y) of the last heappop
    call          \* a stand-alone call of overlapping: arguments and result

vars == <<components, m1, n1, m2, n2, w, leadstart, leadend, anchors,
          step_size, pts, pc, hop, astar, h, pathmapper, visited, popped,
          call>>

inputs == <<components, m1, n1, m2, n2, w, leadstart, leadend, anchors,
            step_size>>

search == <<astar, h, pathmapper, visited, popped>>

---------------------------------------------------------------------------
(* Bounds of the model *)

\* lattice columns 0, 2, .., 2 * MaxX
MaxX == 2

\* lattice rows 0, 2, .., 2 * MaxY
MaxY == 2

\* longest anchors list
MaxAnchors == 1

\* coordinates 0 .. MaxCoord of the stand-alone overlapping calls
MaxCoord == 3

---------------------------------------------------------------------------
(* Arithmetic helpers *)

Abs(x) == IF x < 0 THEN -x ELSE x

Min(x, y) == IF x <= y THEN x ELSE y

Max(x, y) == IF x >= y THEN x ELSE y

\* n / d as a fraction with a positive denominator (d # 0)
Frac(n, d) == IF d < 0 THEN <<-n, -d>> ELSE <<n, d>>

FInt(n) == <<n, 1>>

FAdd(p, q) == <<p[1] * q[2] + q[1] * p[2], p[2] * q[2]>>

FSub(p, q) == <<p[1] * q[2] - q[1] * p[2], p[2] * q[2]>>

FMul(p, q) == <<p[1] * q[1], p[2] * q[2]>>

FDiv(p, q) == Frac(p[1] * q[2], p[2] * q[1])

FEq(p, q) == p[1] * q[2] = q[1] * p[2]

FLeq(p, q) == p[1] * q[2] <= q[1] * p[2]

\* lo <= v <= hi, lo and hi integers, v a fraction
FBetween(lo, v, hi) == FLeq(FInt(lo), v) /\ FLeq(v, FInt(hi))

VAdd(p, q) == <<p[1] + q[1], p[2] + q[2]>>

VSub(p, q) == <<p[1] - q[1], p[2] - q[2]>>

VScale(k, p) == <<k * p[1], k * p[2]>>

Dot(p, q) == p[1] * q[1] + p[2] * q[2]

\* sum(abs(p - q))
Manhattan(p, q) == Abs(p[1] - q[1]) + Abs(p[2] - q[2])

---------------------------------------------------------------------------
(* Natural numbers of any size, for the significands of floats: sequences *)
(* of limbs, least significant first, without leading zero limbs; <<>>    *)
(* is 0.                                                                  *)

\* bits per limb
LimbBits == 15

LimbBase == 2 ^ LimbBits

\* bits of the significand of a Python float (IEEE 754 binary64)
Precision == 53

Limb(x, i) == IF i <= Len(x) THEN x[i] ELSE 0

RECURSIVE BigTrim(_)
BigTrim(x) ==
    IF x # <<>> /\ x[Len(x)] = 0
    THEN BigTrim(SubSeq(x, 1, Len(x) - 1))
    ELSE x

RECURSIVE BigOf(_)
BigOf(n) == IF n = 0 THEN <<>> ELSE <<n % LimbBase>> \o BigOf(n \div LimbBase)

\* -1, 0 or 1 as x[1..i] < y[1..i], x[1..i] = y[1..i] or x[1..i] > y[1..i]
RECURSIVE BigCmpFrom(_, _, _)
BigCmpFrom(x, y, i) ==
    IF i = 0 THEN 0
    ELSE IF x[i] < y[i] THEN -1
    ELSE IF x[i] > y[i] THEN 1
    ELSE BigCmpFrom(x, y, i - 1)

\* -1, 0 or 1 as x < y, x = y or x > y
BigCmp(x, y) ==
    IF Len(x) < Len(y) THEN -1
    ELSE IF Len(x) > Len(y) THEN 1
    ELSE BigCmpFrom(x, y, Len(x))

RECURSIVE BigAddFrom(_, _, _, _)
BigAddFrom(x, y, i, carry) ==
    IF i > Len(x) /\ i > Len(y)
    THEN IF carry = 0 THEN <<>> ELSE <<carry>>
    ELSE LET s == Limb(x, i) + Limb(y, i) + carry
         IN  <<s % LimbBase>> \o BigAddFrom(x, y, i + 1, s \div LimbBase)

BigAdd(x, y) == BigAddFrom(x, y, 1, 0)

\* x - y, for x >= y
RECURSIVE BigSubFrom(_, _, _, _)
BigSubFrom(x, y, i, borrow) ==
    IF i > Len(x)
    THEN <<>>
    ELSE LET s == x[i] - Limb(y, i) - borrow
         IN  IF s < 0
             THEN <<s + LimbBase>> \o BigSubFrom(x, y, i + 1, 1)
             ELSE <<s>> \o BigSubFrom(x, y, i + 1, 0)

BigSub(x, y) == BigTrim(BigSubFrom(x, y, 1, 0))

\* x * k, for a limb k
RECURSIVE BigMulLimbFrom(_, _, _, _)
BigMulLimbFrom(x, k, i, carry) ==
    IF i > Len(x)
    THEN IF carry = 0 THEN <<>> ELSE <<carry>>
    ELSE LET s == x[i] * k + carry
         IN  <<s % LimbBase>> \o BigMulLimbFrom(x, k, i + 1, s \div LimbBase)

BigMulLimb(x, k) == IF k = 0 THEN <<>> ELSE BigMulLimbFrom(x, k, 1, 0)

RECURSIVE BigMulFrom(_, _, _)
BigMulFrom(x, y, j) ==
    IF j > Len(y)
    THEN <<>>
    ELSE BigAdd(BigMulLimb(x, y[j]),
                BigTrim(<<0>> \o BigMulFrom(x, y, j + 1)))

BigMul(x, y) == IF x = <<>> THEN <<>> ELSE BigMulFrom(x, y, 1)

\* x * 2 ^ s
BigShl(x, s) ==
    IF x = <<>>
    THEN <<>>
    ELSE [i \in 1..(s \div LimbBits) |-> 0]
             \o BigMulLimb(x, 2 ^ (s % LimbBits))

\* x \div 2 ^ s
BigShr(x, s) ==
    LET q == s \div LimbBits
        r == s % LimbBits
        y == SubSeq(x, q + 1, Len(x))
    IN  BigTrim([i \in 1..Len(y) |->
                    (y[i] \div 2 ^ r) + (Limb(y, i + 1) % 2 ^ r) * 2 ^ (LimbBits - r)])

\* bit i of x, bit 0 the least significant
BigBit(x, i) == (Limb(x, i \div LimbBits + 1) \div 2 ^ (i % LimbBits)) % 2

\* x % 2 ^ s = 0
BigLowZero(x, s) ==
    /\ \A i \in 1..Len(x) : i <= s \div LimbBits => x[i] = 0
    /\ Limb(x, s \div LimbBits + 1) % 2 ^ (s % LimbBits) = 0

\* number of significant bits of x
BigBitLen(x) ==
    IF x = <<>>
    THEN 0
    ELSE LimbBits * (Len(x) - 1)
             + (CHOOSE k \in 1..LimbBits :
                    2 ^ (k - 1) <= x[Len(x)] /\ x[Len(x)] < 2 ^ k)

\* the largest q <= guess with q * d <= r
RECURSIVE BigQuotLimb(_, _, _)
BigQuotLimb(r, d, guess) ==
    IF BigCmp(BigMulLimb(d, guess), r) <= 0
    THEN guess
    ELSE BigQuotLimb(r, d, guess - 1)

\* the quotient limb qd is put above the quotient of the limbs below
BigDivPut(rec, qd) == [q |-> Append(rec.q, qd), r |-> rec.r]

\* long division of n[1..i] by d, r the remainder of the limbs above;
\* the top limb of d is at least LimbBase \div 2, so that the quotient of
\* the top limbs of r and d is the quotient limb or at most 2 above it
RECURSIVE BigDivFrom(_, _, _, _)
BigDivStep(n, d, i, r1, qd) ==
    BigDivPut(BigDivFrom(n, d, i - 1, BigSub(r1, BigMulLimb(d, qd))), qd)

BigDivLimb(n, d, i, r1) ==
    BigDivStep(n, d, i, r1,
               IF BigCmp(r1, d) < 0
               THEN 0
               ELSE BigQuotLimb(r1, d,
                                Min(LimbBase - 1,
                                    (Limb(r1, Len(d) + 1) * LimbBase + Limb(r1, Len(d)))
                                        \div d[Len(d)])))

BigDivFrom(n, d, i, r) ==
    IF i = 0
    THEN [q |-> <<>>, r |-> r]
    ELSE BigDivLimb(n, d, i, BigTrim(<<n[i]>> \o r))

BigDivTrim(res) == [q |-> BigTrim(res.q), r |-> res.r]

BigDivShifted(ns, ds) == BigDivTrim(BigDivFrom(ns, ds, Len(ns), <<>>))

\* quotient q of n by d, and whether the division is exact (r = <<>>);
\* d # 0
BigDivMod(n, d) ==
    BigDivShifted(BigShl(n, LimbBits - BigBitLen(<<d[Len(d)]>>)),
                  BigShl(d, LimbBits - BigBitLen(<<d[Len(d)]>>)))

---------------------------------------------------------------------------
(* Python floats (IEEE 754 binary64, round to nearest, ties to even), as   *)
(* the / * + - of lines 40-43 and 48-63 compute them:                      *)
(* (-1) ^ neg * m * 2 ^ e, m a natural number of at most Precision bits    *)
(* (or 2 ^ Precision).  No value of the model is large or small enough to  *)
(* overflow or to be subnormal.                                            *)

\* float(n) for an int n
FloatOf(n) == [neg |-> n < 0, m |-> BigOf(Abs(n)), e |-> 0]

\* m cut to its top Precision bits q, t bits dropped, and rounded
FloatRoundCut(neg, m, e, sticky, t, q) ==
    [neg |-> neg,
     m |-> IF /\ BigBit(m, t - 1) = 1
              /\ (sticky \/ ~ BigLowZero(m, t - 1) \/ BigBit(q, 0) = 1)
           THEN BigAdd(q, <<1>>)
           ELSE q,
     e |-> e + t]

FloatRoundLen(neg, m, e, sticky, len) ==
    IF len <= Precision
    THEN [neg |-> neg /\ m # <<>>, m |-> m, e |-> e]
    ELSE FloatRoundCut(neg, m, e, sticky, len - Precision,
                       BigShr(m, len - Precision))

\* the float nearest to (-1) ^ neg * (m + f) * 2 ^ e, ties to even, where
\* 0 <= f < 1 and sticky tells f > 0
FloatRound(neg, m, e, sticky) == FloatRoundLen(neg, m, e, sticky, BigBitLen(m))

FloatNeg(x) == [x EXCEPT !.neg = ~ x.neg /\ x.m # <<>>]

\* sign and size of (-1) ^ x.neg * mx + (-1) ^ y.neg * my
FloatSigned(x, y, mx, my) ==
    IF x.neg = y.neg THEN [neg |-> x.neg, m |-> BigAdd(mx, my)]
    ELSE IF BigCmp(mx, my) >= 0 THEN [neg |-> x.neg, m |-> BigSub(mx, my)]
    ELSE [neg |-> y.neg, m |-> BigSub(my, mx)]

FloatRounded(s, e) == FloatRound(s.neg, s.m, e, FALSE)

FloatAddAt(x, y, e) ==
    FloatRounded(FloatSigned(x, y, BigShl(x.m, x.e - e), BigShl(y.m, y.e - e)), e)

\* x + y
FloatAdd(x, y) ==
    IF x.m = <<>> THEN y
    ELSE IF y.m = <<>> THEN x
    ELSE FloatAddAt(x, y, Min(x.e, y.e))

\* x - y
FloatSub(x, y) == FloatAdd(x, FloatNeg(y))

\* x * y
FloatMul(x, y) ==
    FloatRound(x.neg # y.neg, BigMul(x.m, y.m), x.e + y.e, FALSE)

FloatQuotient(x, y, s, res) ==
    FloatRound(x.neg # y.neg, res.q, x.e - y.e - s, res.r # <<>>)

FloatDivBy(x, y, s) == FloatQuotient(x, y, s, BigDivMod(BigShl(x.m, s), y.m))

\* x / y, y # 0
FloatDiv(x, y) ==
    FloatDivBy(x, y, Max(0, Precision + 3 + BigBitLen(y.m) - BigBitLen(x.m)))

FloatCmpAt(x, y, mx, my) == IF x.neg THEN BigCmp(my, mx) ELSE BigCmp(mx, my)

\* -1, 0 or 1 as x < y, x = y or x > y
FloatCmp(x, y) ==
    IF x.m = <<>> /\ y.m = <<>> THEN 0
    ELSE IF x.m = <<>> THEN (IF y.neg THEN 1 ELSE -1)
    ELSE IF y.m = <<>> THEN (IF x.neg THEN -1 ELSE 1)
    ELSE IF x.neg # y.neg THEN (IF x.neg THEN -1 ELSE 1)
    ELSE FloatCmpAt(x, y, BigShl(x.m, x.e - Min(x.e, y.e)),
                    BigShl(y.m, y.e - Min(x.e, y.e)))

FloatEq(x, y) == FloatCmp(x, y) = 0

FloatLeq(x, y) == FloatCmp(x, y) <= 0

\* lo <= v <= hi, lo and hi ints, v a float
FloatBetween(lo, v, hi) == FloatLeq(FloatOf(lo), v) /\ FloatLeq(v, FloatOf(hi))

\* the value of the big natural x
RECURSIVE BigInt(_)
BigInt(x) == IF x = <<>> THEN 0 ELSE x[1] + LimbBase * BigInt(Tail(x))

\* the int a float x of integer value is equal to
FloatInt(x) ==
    IF x.m = <<>>
    THEN 0
    ELSE (IF x.neg THEN -1 ELSE 1) * BigInt(x.m) * 2 ^ x.e

\* x * y for ints x and y, of any size and not rounded, as Python
\* multiplies ints
IntMul(x, y) ==
    [neg |-> (x < 0) # (y < 0) /\ x # 0 /\ y # 0,
     m |-> IF x = 0 \/ y = 0 THEN <<>> ELSE BigMul(BigOf(Abs(x)), BigOf(Abs(y))),
     e |-> 0]

\* p - q for products p and q of ints, not rounded
IntSub(p, q) ==
    IF q.m = <<>> THEN p
    ELSE IF p.m = <<>> THEN [q EXCEPT !.neg = ~ q.neg]
    ELSE IF p.neg # q.neg THEN [p EXCEPT !.m = BigAdd(p.m, q.m)]
    ELSE IF BigCmp(p.m, q.m) = 0 THEN FloatOf(0)
    ELSE IF BigCmp(p.m, q.m) > 0 THEN [p EXCEPT !.m = BigSub(p.m, q.m)]
    ELSE [neg |-> ~ p.neg, m |-> BigSub(q.m, p.m), e |-> 0]

---------------------------------------------------------------------------
(* overlapping(a, b, c, d), lines 17-69 *)

RECURSIVE OddPart(_)
OddPart(n) == IF n % 2 = 0 THEN OddPart(n \div 2) ELSE n

\* the fraction p is a multiple of a power of 1/2 (p[1] = 0 or p[2] > 0):
\* the floating-point division that computes it is exact
Dyadic(p) == IF p[1] = 0 THEN TRUE ELSE p[1] % OddPart(p[2]) = 0

\* every quotient overlapping(a, b, c, d) computes (lines 40, 41, 48, 49,
\* 60-62) is exact in floating point, and so are the sums and products:
\* the fractions are the values the code compares
ExactCall(a, b, c, d) ==
    LET Slope(p, q) == Frac(q[2] - p[2], q[1] - p[1])
        Intercept(p, q) == Frac(p[2] * q[1] - q[2] * p[1], q[1] - p[1])
        Line(p, q) == IF p[2] = q[2] THEN TRUE
                      ELSE Dyadic(Slope(p, q)) /\ Dyadic(Intercept(p, q))
    IN  IF a[1] = b[1] /\ c[1] = d[1] THEN TRUE
        ELSE IF a[1] = b[1] THEN Line(c, d)
        ELSE IF c[1] = d[1] THEN Line(a, b)
        ELSE /\ Line(a, b)
             /\ Line(c, d)
             /\ IF (d[1] - c[1]) * (b[2] - a[2]) = (b[1] - a[1]) * (d[2] - c[2])
                THEN TRUE
                ELSE Dyadic(FDiv(FSub(Intercept(c, d), Intercept(a, b)),
                                 FSub(Slope(a, b), Slope(c, d))))

\* lines 25-32: both segments vertical
BothVertical(x0_start, y0_start, x0_end, y0_end, x1_start, y1_start, x1_end, y1_end) ==
    IF x0_end = x1_start
    THEN ~ (Min(y0_start, y0_end) > Max(y1_start, y1_end)
            \/ Min(y1_start, y1_end) > Max(y0_start, y1_end))
    ELSE FALSE

\* lines 40-45: line 0 is the vertical one, line 1 is not vertical
OneVertical(x0_start, y0_start, x0_end, y0_end, x1_start, y1_start, x1_end, y1_end) ==
    LET m == Frac(y1_end - y1_start, x1_end - x1_start)
        b == Frac(x1_end * y1_start - x1_start * y1_end, x1_end - x1_start)
    IN  /\ Min(x1_start, x1_end) <= x0_start
        /\ x0_start <= Max(x1_start, x1_end)
        /\ FBetween(Min(y0_start, y0_end),
                    FAdd(FMul(m, FInt(x0_start)), b),
                    Max(y0_start, y0_end))

\* lines 48-69: neither segment vertical
NoneVertical(x0_start, y0_start, x0_end, y0_end, x1_start, y1_start, x1_end, y1_end) ==
    LET b0 == Frac(y0_start * x0_end - y0_end * x0_start, x0_end - x0_start)
        b1 == Frac(y1_start * x1_end - y1_end * x1_start, x1_end - x1_start)
    IN  IF (x1_end - x1_start) * (y0_end - y0_start)
              = (x0_end - x0_start) * (y1_end - y1_start)
        THEN IF FEq(b0, b1)
             THEN ~ (Min(x0_start, x0_end) > Max(x1_start, x1_end)
                     \/ Min(x1_start, x1_end) > Max(x0_start, x1_end))
             ELSE FALSE
        ELSE LET m0 == Frac(y0_end - y0_start, x0_end - x0_start)
                 m1_ == Frac(y1_end - y1_start, x1_end - x1_start)
                 x_intersect == FDiv(FSub(b1, b0), FSub(m0, m1_))
                 y_intersect == FAdd(FMul(m0, x_intersect), b0)
             IN  /\ FBetween(Min(x0_start, x0_end), x_intersect, Max(x0_start, x0_end))
                 /\ FBetween(Min(y0_start, y0_end), y_intersect, Max(y0_start, y0_end))
                 /\ FBetween(Min(x1_start, x1_end), x_intersect, Max(x1_start, x1_end))
                 /\ FBetween(Min(y1_start, y1_end), y_intersect, Max(y1_start, y1_end))

\* lines 40-45 in floats: line 0 is the vertical one, line 1 is not vertical
OneVerticalRounded(x0_start, y0_start, x0_end, y0_end, x1_start, y1_start, x1_end, y1_end) ==
    /\ Min(x1_start, x1_end) <= x0_start
    /\ x0_start <= Max(x1_start, x1_end)
    /\ \E m \in {FloatDiv(FloatOf(y1_end - y1_start), FloatOf(x1_end - x1_start))},
          b \in {FloatDiv(IntSub(IntMul(x1_end, y1_start), IntMul(x1_start, y1_end)),
                          FloatOf(x1_end - x1_start))} :
           FloatBetween(Min(y0_start, y0_end),
                        FloatAdd(FloatMul(m, FloatOf(x0_start)), b),
                        Max(y0_start, y0_end))

\* lines 48-69 in floats: neither segment vertical
NoneVerticalRounded(x0_start, y0_start, x0_end, y0_end, x1_start, y1_start, x1_end, y1_end) ==
    \E b0 \in {FloatDiv(IntSub(IntMul(y0_start, x0_end), IntMul(y0_end, x0_start)),
                         FloatOf(x0_end - x0_start))},
       b1 \in {FloatDiv(IntSub(IntMul(y1_start, x1_end), IntMul(y1_end, x1_start)),
                         FloatOf(x1_end - x1_start))} :
        IF FloatEq(IntMul(x1_end - x1_start, y0_end - y0_start),
                   IntMul(x0_end - x0_start, y1_end - y1_start))
        THEN IF FloatEq(b0, b1)
             THEN ~ (Min(x0_start, x0_end) > Max(x1_start, x1_end)
                     \/ Min(x1_start, x1_end) > Max(x0_start, x1_end))
             ELSE FALSE
        ELSE \E m0 \in {FloatDiv(FloatOf(y0_end - y0_start), FloatOf(x0_end - x0_start))},
                m1_ \in {FloatDiv(FloatOf(y1_end - y1_start), FloatOf(x1_end - x1_start))} :
             \E x_intersect \in {FloatDiv(FloatSub(b1, b0), FloatSub(m0, m1_))} :
             \E y_intersect \in {FloatAdd(FloatMul(m0, x_intersect), b0)} :
                 /\ FloatBetween(Min(x0_start, x0_end), x_intersect, Max(x0_start, x0_end))
                 /\ FloatBetween(Min(y0_start, y0_end), y_intersect, Max(y0_start, y0_end))
                 /\ FloatBetween(Min(x1_start, x1_end), x_intersect, Max(x1_start, x1_end))
                 /\ FloatBetween(Min(y1_start, y1_end), y_intersect, Max(y1_start, y1_end))

\* lines 17-69 with the floats of the code throughout, for ints of any
\* size; the call divides by no zero
overlapping_rounded(a, b, c, d) ==
    IF a[1] = b[1] /\ c[1] = d[1]
    THEN BothVertical(a[1], a[2], b[1], b[2], c[1], c[2], d[1], d[2])
    ELSE IF a[1] = b[1] \/ c[1] = d[1]
    THEN \* lines 36-39: exchange names, so that v is the vertical one
         \E v \in {IF c[1] = d[1] THEN <<c, d, a, b>> ELSE <<a, b, c, d>>} :
             OneVerticalRounded(v[1][1], v[1][2], v[2][1], v[2][2],
                                v[3][1], v[3][2], v[4][1], v[4][2])
    ELSE NoneVerticalRounded(a[1], a[2], b[1], b[2], c[1], c[2], d[1], d[2])

\* a value overlapping(a, b, c, d) compares (lines 43, 64-67) is, in exact
\* arithmetic, equal to the bound it is compared with
Tie(a, b, c, d) ==
    LET Slope(p, q) == Frac(q[2] - p[2], q[1] - p[1])
        Intercept(p, q) == Frac(p[2] * q[1] - q[2] * p[1], q[1] - p[1])
        At(p, q, x) == FAdd(FMul(Slope(p, q), x), Intercept(p, q))
        Ends(v, p, q, i) == FEq(v, FInt(p[i])) \/ FEq(v, FInt(q[i]))
    IN  IF a[1] = b[1] /\ c[1] = d[1] THEN FALSE
        ELSE IF c[1] = d[1] THEN Ends(At(a, b, FInt(c[1])), c, d, 2)
        ELSE IF a[1] = b[1] THEN Ends(At(c, d, FInt(a[1])), a, b, 2)
        ELSE IF (d[1] - c[1]) * (b[2] - a[2]) = (b[1] - a[1]) * (d[2] - c[2])
        THEN FALSE
        ELSE LET x_intersect == FDiv(FSub(Intercept(c, d), Intercept(a, b)),
                                     FSub(Slope(a, b), Slope(c, d)))
                 y_intersect == At(a, b, x_intersect)
             IN  \/ Ends(x_intersect, a, b, 1)
                 \/ Ends(y_intersect, a, b, 2)
                 \/ Ends(x_intersect, c, d, 1)
                 \/ Ends(y_intersect, c, d, 2)

\* the comparisons of overlapping(a, b, c, d) come out on the fractions as
\* they do on the floats of the code: either no float is rounded, or no
\* compared value is as near to its bound as the rounding errors are large
\* (two different fractions of the model are more than 1/1000 apart, the
\* rounding errors are below 1/10^12; the quotients b0 and b1 of line 52,
\* correctly rounded, are equal floats exactly when they are equal
\* fractions)
FractionsDecide(a, b, c, d) ==
    IF ExactCall(a, b, c, d) THEN TRUE ELSE ~ Tie(a, b, c, d)

\* the values are fractions where these decide as the floats do, and the
\* floats of the code otherwise
overlapping(a, b, c, d) ==
    IF a[1] = b[1] /\ c[1] = d[1]
    THEN BothVertical(a[1], a[2], b[1], b[2], c[1], c[2], d[1], d[2])
    ELSE IF ~ FractionsDecide(a, b, c, d)
    THEN overlapping_rounded(a, b, c, d)
    ELSE IF c[1] = d[1]
    THEN \* lines 36-39: exchange names
         OneVertical(c[1], c[2], d[1], d[2], a[1], a[2], b[1], b[2])
    ELSE IF a[1] = b[1]
    THEN OneVertical(a[1], a[2], b[1], b[2], c[1], c[2], d[1], d[2])
    ELSE NoneVertical(a[1], a[2], b[1], b[2], c[1], c[2], d[1], d[2])

\* the divisors of the divisions overlapping(a, b, c, d) executes, in the
\* order of lines 40, 41 or of lines 48, 49, 60, 61, 62
Divisors(a, b, c, d) ==
    IF a[1] = b[1] /\ c[1] = d[1]
    THEN <<>>
    ELSE IF c[1] = d[1]
    THEN <<FloatOf(b[1] - a[1]), FloatOf(b[1] - a[1])>>
    ELSE IF a[1] = b[1]
    THEN <<FloatOf(d[1] - c[1]), FloatOf(d[1] - c[1])>>
    ELSE IF FloatEq(IntMul(d[1] - c[1], b[2] - a[2]),
                    IntMul(b[1] - a[1], d[2] - c[2]))
    THEN <<FloatOf(b[1] - a[1]), FloatOf(d[1] - c[1])>>
    ELSE <<FloatOf(b[1] - a[1]), FloatOf(d[1] - c[1]),
           FloatOf(b[1] - a[1]), FloatOf(d[1] - c[1]),
           FloatSub(FloatDiv(FloatOf(b[2] - a[2]), FloatOf(b[1] - a[1])),
                    FloatDiv(FloatOf(d[2] - c[2]), FloatOf(d[1] - c[1])))>>

\* a division of overlapping(a, b, c, d) raises ZeroDivisionError
ZeroDivision(a, b, c, d) ==
    \E divisors \in {Divisors(a, b, c, d)} :
        \E i \in 1..Len(divisors) : divisors[i].m = <<>>

---------------------------------------------------------------------------
(* overlapping(a, b, c, d), lines 17-69, on coordinates that are floats *)

\* min(x, y) and max(x, y)
FloatMin(x, y) == IF FloatCmp(y, x) < 0 THEN y ELSE x

FloatMax(x, y) == IF FloatCmp(y, x) > 0 THEN y ELSE x

\* lo <= v <= hi
FloatWithin(lo, v, hi) == FloatLeq(lo, v) /\ FloatLeq(v, hi)

\* lines 25-32: both segments vertical
BothVerticalFloats(x0_start, y0_start, x0_end, y0_end, x1_start, y1_start, x1_end, y1_end) ==
    IF FloatEq(x0_end, x1_start)
    THEN ~ (FloatCmp(FloatMin(y0_start, y0_end), FloatMax(y1_start, y1_end)) > 0
            \/ FloatCmp(FloatMin(y1_start, y1_end), FloatMax(y0_start, y1_end)) > 0)
    ELSE FALSE

\* lines 40-45: line 0 is the vertical one, line 1 is not vertical
OneVerticalFloats(x0_start, y0_start, x0_end, y0_end, x1_start, y1_start, x1_end, y1_end) ==
    /\ FloatWithin(FloatMin(x1_start, x1_end), x0_start, FloatMax(x1_start, x1_end))
    /\ \E m \in {FloatDiv(FloatSub(y1_end, y1_start), FloatSub(x1_end, x1_start))},
          b \in {FloatDiv(FloatSub(FloatMul(x1_end, y1_start), FloatMul(x1_start, y1_end)),
                          FloatSub(x1_end, x1_start))} :
           FloatWithin(FloatMin(y0_start, y0_end),
                       FloatAdd(FloatMul(m, x0_start), b),
                       FloatMax(y0_start, y0_end))

\* lines 48-69: neither segment vertical
NoneVerticalFloats(x0_start, y0_start, x0_end, y0_end, x1_start, y1_start, x1_end, y1_end) ==
    \E b0 \in {FloatDiv(FloatSub(FloatMul(y0_start, x0_end), FloatMul(y0_end, x0_start)),
                         FloatSub(x0_end, x0_start))},
       b1 \in {FloatDiv(FloatSub(FloatMul(y1_start, x1_end), FloatMul(y1_end, x1_start)),
                         FloatSub(x1_end, x1_start))} :
        IF FloatEq(FloatMul(FloatSub(x1_end, x1_start), FloatSub(y0_end, y0_start)),
                   FloatMul(FloatSub(x0_end, x0_start), FloatSub(y1_end, y1_start)))
        THEN IF FloatEq(b0, b1)
             THEN ~ (FloatCmp(FloatMin(x0_start, x0_end), FloatMax(x1_start, x1_end)) > 0
                     \/ FloatCmp(FloatMin(x1_start, x1_end), FloatMax(x0_start, x1_end)) > 0)
             ELSE FALSE
        ELSE \E m0 \in {FloatDiv(FloatSub(y0_end, y0_start), FloatSub(x0_end, x0_start))},
                m1_ \in {FloatDiv(FloatSub(y1_end, y1_start), FloatSub(x1_end, x1_start))} :
             \E x_intersect \in {FloatDiv(FloatSub(b1, b0), FloatSub(m0, m1_))} :
             \E y_intersect \in {FloatAdd(FloatMul(m0, x_intersect), b0)} :
                 /\ FloatWithin(FloatMin(x0_start, x0_end), x_intersect, FloatMax(x0_start, x0_end))
                 /\ FloatWithin(FloatMin(y0_start, y0_end), y_intersect, FloatMax(y0_start, y0_end))
                 /\ FloatWithin(FloatMin(x1_start, x1_end), x_intersect, FloatMax(x1_start, x1_end))
                 /\ FloatWithin(FloatMin(y1_start, y1_end), y_intersect, FloatMax(y1_start, y1_end))

\* lines 17-69 for points a, b, c, d whose coordinates are floats; the call
\* divides by no zero
overlapping_floats(a, b, c, d) ==
    IF FloatEq(a[1], b[1]) /\ FloatEq(c[1], d[1])
    THEN BothVerticalFloats(a[1], a[2], b[1], b[2], c[1], c[2], d[1], d[2])
    ELSE IF FloatEq(a[1], b[1]) \/ FloatEq(c[1], d[1])
    THEN \* lines 36-39: exchange names, so that v is the vertical one
         \E v \in {IF FloatEq(c[1], d[1]) THEN <<c, d, a, b>> ELSE <<a, b, c, d>>} :
             OneVerticalFloats(v[1][1], v[1][2], v[2][1], v[2][2],
                               v[3][1], v[3][2], v[4][1], v[4][2])
    ELSE NoneVerticalFloats(a[1], a[2], b[1], b[2], c[1], c[2], d[1], d[2])

---------------------------------------------------------------------------
(* HybridPathfinderNew.no_obstacles, lines 97-117 *)

\* the boundary segments without (q, s)
BoxEdgesThree(box) ==
    LET p == <<box[1], box[2]>>
        q == <<box[1], box[4]>>
        r == <<box[3], box[2]>>
        s == <<box[3], box[4]>>
    IN  {<<p, q>>, <<p, r>>, <<r, s>>}

\* lines 109-113: the four boundary segments (p, q), (p, r), (r, s), (q, s)
\* of the bounding box <<xmin, ymin, xmax, ymax>>
BoxEdges(box) ==
    LET p == <<box[1], box[2]>>
        q == <<box[1], box[4]>>
        r == <<box[3], box[2]>>
        s == <<box[3], box[4]>>
    IN  {<<p, q>>, <<p, r>>, <<r, s>>, <<q, s>>}

no_obstacles(segment) ==
    \A component \in components :
        ~ \E e \in BoxEdges(component) :
            overlapping(segment[1], segment[2], e[1], e[2])

---------------------------------------------------------------------------
(* HybridPathfinderNew.getpts_simple, lines 119-159; [] is <<>> *)

\* lines 145-158: the symmetric 3-segment CPW
ThreeSegment(start, end) ==
    LET offsetx == Abs(start[1] - end[1])
        offsety == Abs(start[2] - end[2])
        newpt3 == IF offsetx >= offsety
                  THEN <<(start[1] + end[1]) \div 2, start[2]>>
                  ELSE <<start[1], (start[2] + end[2]) \div 2>>
        newpt4 == IF offsetx >= offsety
                  THEN <<(start[1] + end[1]) \div 2, end[2]>>
                  ELSE <<end[1], (start[2] + end[2]) \div 2>>
    IN  IF /\ no_obstacles(<<start, newpt3>>)
           /\ no_obstacles(<<newpt3, newpt4>>)
           /\ no_obstacles(<<newpt4, end>>)
        THEN <<start, newpt3, newpt4, end>>
        ELSE <<>>

\* Elbows with the second leg of each elbow left untested
ElbowsFirstLegOnly(start, end) ==
    LET newpt1 == <<start[1], end[2]>>
        newpt2 == <<end[1], start[2]>>
    IN  IF no_obstacles(<<start, newpt1>>)
        THEN <<start, newpt1, end>>
        ELSE IF no_obstacles(<<start, newpt2>>)
        THEN <<start, newpt2, end>>
        ELSE ThreeSegment(start, end)

\* Elbows with the elbow that bends at (end.x, start.y) tried first
ElbowsEndFirst(start, end) ==
    LET newpt1 == <<start[1], end[2]>>
        newpt2 == <<end[1], start[2]>>
    IN  IF no_obstacles(<<start, newpt2>>) /\ no_obstacles(<<newpt2, end>>)
        THEN <<start, newpt2, end>>
        ELSE IF no_obstacles(<<start, newpt1>>) /\ no_obstacles(<<newpt1, end>>)
        THEN <<start, newpt1, end>>
        ELSE ThreeSegment(start, end)

\* every segment of the route passes no_obstacles
RouteClear(route) ==
    \A i \in 1..(Len(route) - 1) : no_obstacles(<<route[i], route[i + 1]>>)

\* the first route from routes[i] on whose segments all pass no_obstacles,
\* [] if there is none
RECURSIVE FirstClear(_, _)
FirstClear(routes, i) ==
    IF i > Len(routes)
    THEN <<>>
    ELSE IF RouteClear(routes[i])
    THEN routes[i]
    ELSE FirstClear(routes, i + 1)

\* lines 138-157: the routes tried in turn: the two elbows, then the
\* symmetric 3-segment CPW
ElbowRoutes(start, end) ==
    LET newpt1 == <<start[1], end[2]>>
        newpt2 == <<end[1], start[2]>>
        offsetx == Abs(start[1] - end[1])
        offsety == Abs(start[2] - end[2])
        newpt3 == IF offsetx >= offsety
                  THEN <<(start[1] + end[1]) \div 2, start[2]>>
                  ELSE <<start[1], (start[2] + end[2]) \div 2>>
        newpt4 == IF offsetx >= offsety
                  THEN <<(start[1] + end[1]) \div 2, end[2]>>
                  ELSE <<end[1], (start[2] + end[2]) \div 2>>
    IN  <<(<<start, newpt1, end>>), (<<start, newpt2, end>>),
          (<<start, newpt3, newpt4, end>>)>>

\* lines 138-158: the two elbows, then the 3-segment CPW
Elbows(start, end) == FirstClear(ElbowRoutes(start, end), 1)

\* getpts_simple without the single-segment attempt of lines 133-136
getpts_simple_elbows_only(start_direction, start, end) ==
    IF Dot(start_direction, VSub(end, start)) >= 0
    THEN Elbows(start, end)
    ELSE <<>>

\* getpts_simple without the direction guard of line 132
getpts_simple_any_direction(start_direction, start, end) ==
    IF /\ (start[1] = end[1] \/ start[2] = end[2])
       /\ no_obstacles(<<start, end>>)
    THEN <<start, end>>
    ELSE Elbows(start, end)

getpts_simple(start_direction, start, end) ==
    IF Dot(start_direction, VSub(end, start)) >= 0
    THEN IF /\ (start[1] = end[1] \/ start[2] = end[2])
            /\ no_obstacles(<<start, end>>)
         THEN <<start, end>>
         ELSE Elbows(start, end)
    ELSE <<>>

\* the segments a conjunction of no_obstacles calls is evaluated on, from
\* legs[i] on: Python's "and" and nested "if" stop at the first leg that
\* fails
RECURSIVE LegsTested(_, _)
LegsTested(legs, i) ==
    IF i > Len(legs)
    THEN <<>>
    ELSE IF no_obstacles(legs[i])
    THEN <<legs[i]>> \o LegsTested(legs, i + 1)
    ELSE <<legs[i]>>

\* the segments of the route, in order
Legs(route) == [i \in 1..(Len(route) - 1) |-> <<route[i], route[i + 1]>>]

\* the segments passed to no_obstacles while the routes from routes[i] on
\* are tried in turn, up to the first route that is clear; tested are the
\* segments of routes[i] passed to it
RECURSIVE RoutesTested(_, _)
RoutesTestedAfter(routes, i, tested) ==
    IF Len(tested) = Len(routes[i]) - 1 /\ no_obstacles(tested[Len(tested)])
    THEN tested
    ELSE tested \o RoutesTested(routes, i + 1)

RoutesTested(routes, i) ==
    IF i > Len(routes)
    THEN <<>>
    ELSE RoutesTestedAfter(routes, i, LegsTested(Legs(routes[i]), 1))

\* lines 138-157: the segments the elbows and the 3-segment CPW pass to
\* no_obstacles, in the order of the calls
ElbowsTested(start, end) == RoutesTested(ElbowRoutes(start, end), 1)

\* lines 132-157: the segments one call of getpts_simple passes to
\* no_obstacles, in the order of the calls
getpts_simple_tested(start_direction, start, end) ==
    IF Dot(start_direction, VSub(end, start)) >= 0
    THEN RoutesTested((IF start[1] = end[1] \/ start[2] = end[2]
                       THEN <<(<<start, end>>)>>
                       ELSE <<>>) \o ElbowRoutes(start, end), 1)
    ELSE <<>>

---------------------------------------------------------------------------
(* HybridPathfinderNew.getpts_astar, lines 161-232 *)

\* tuple comparison of heap entries (f, x, y)
KeyLess(k1, k2) ==
    \/ k1[1] < k2[1]
    \/ k1[1] = k2[1] /\ k1[2] < k2[2]
    \/ k1[1] = k2[1] /\ k1[2] = k2[2] /\ k1[3] < k2[3]

\* a pop that takes the oldest entry instead of the smallest
HeapTopOldest(heap) == heap[1]

\* the entry heapq.heappop returns: the smallest of the heap
HeapTop(heap) ==
    CHOOSE k \in {heap[i] : i \in 1..Len(heap)} :
        \A j \in 1..Len(heap) : ~ KeyLess(heap[j], k)

\* the heap after heappop: one occurrence of its smallest entry removed
HeapRest(heap) ==
    LET top == HeapTop(heap)
        i == CHOOSE i \in 1..Len(heap) :
                 heap[i] = top /\ \A j \in 1..(i - 1) : heap[j] # top
    IN  SubSeq(heap, 1, i - 1) \o SubSeq(heap, i + 1, Len(heap))

\* pathmapper[key] = value
Put(map, key, value) ==
    [k \in DOMAIN map \cup {key} |-> IF k = key THEN value ELSE map[k]]

\* line 203: the unit displacements in the order of the for loop
Disps == <<(<<0, 1>>), (<<0, -1>>), (<<1, 0>>), (<<-1, 0>>)>>

\* lines 195-200
Direction(current_path, start_direction) ==
    IF Len(current_path) = 1
    THEN start_direction
    ELSE VSub(current_path[Len(current_path)],
              current_path[Len(current_path) - 1])

\* 2 ^ 54: the floats from 2 ^ 54 to 2 ^ 55 are the multiples of 4, and
\* the floats from 2 ^ 53 to 2 ^ 54 are the even integers
Origin54 == [neg |-> FALSE, m |-> <<1>>, e |-> 54]

\* line 208, one coordinate: x + d.  A coordinate x of a search stands for
\* the float astar.origin + x.  With the origin 0 the sum of the small
\* integers x and d is exact; with another origin it is the float nearest
\* to astar.origin + x + d.
NextCoord(x, d) ==
    IF astar.origin.m = <<>>
    THEN x + d
    ELSE FloatInt(FloatSub(FloatAdd(FloatAdd(astar.origin, FloatOf(x)), FloatOf(d)),
                           astar.origin))

\* line 208: curpt + step_size * disp
NextPt(curpt, step, disp) ==
    <<NextCoord(curpt[1], step * disp[1]), NextCoord(curpt[2], step * disp[2])>>

\* the neighbors list without the test of line 205: all four directions
RECURSIVE NeighborsAnyDirection(_, _, _, _)
NeighborsAnyDirection(i, current_path, direction, step) ==
    IF i > Len(Disps)
    THEN <<>>
    ELSE IF no_obstacles(<<current_path[Len(current_path)],
                           NextPt(current_path[Len(current_path)], step, Disps[i])>>)
    THEN <<NextPt(current_path[Len(current_path)], step, Disps[i])>>
             \o NeighborsAnyDirection(i + 1, current_path, direction, step)
    ELSE NeighborsAnyDirection(i + 1, current_path, direction, step)

\* lines 203-210: the neighbors list, for disp = Disps[i], Disps[i + 1], ..
RECURSIVE Neighbors(_, _, _, _)
Neighbors(i, current_path, direction, step) ==
    IF i > Len(Disps)
    THEN <<>>
    ELSE LET disp == Disps[i]
             curpt == current_path[Len(current_path)]
             nextpt == NextPt(curpt, step, disp)
             rest == Neighbors(i + 1, current_path, direction, step)
         IN  IF Dot(disp, direction) >= 0 /\ no_obstacles(<<curpt, nextpt>>)
             THEN <<nextpt>> \o rest
             ELSE rest

\* the neighbor appended whether it is collinear or not
NewPathAppended(current_path, neighbor) == current_path \o <<neighbor>>

\* lines 215-225
NewPath(current_path, neighbor) ==
    IF Len(current_path) > 1
    THEN LET ult == current_path[Len(current_path)]
             pen == current_path[Len(current_path) - 1]
         IN  IF (ult[2] - pen[2]) * (neighbor[1] - ult[1])
                   = (neighbor[2] - ult[2]) * (ult[1] - pen[1])
             THEN SubSeq(current_path, 1, Len(current_path) - 1) \o <<neighbor>>
             ELSE current_path \o <<neighbor>>
    ELSE current_path \o <<neighbor>>

\* a return of the path as it was searched, the neighbor its last point
SnapToGoalKept(new_path, end) == new_path

\* line 228: new_path[:-1] + [end]
SnapToGoal(new_path, end) ==
    SubSeq(new_path, 1, Len(new_path) - 1) \o <<end>>

\* line 226: 10 ** -8 in the unit of length of the coordinates.  When the
\* unit is 1, a distance between points of integer coordinates is below
\* 10 ** -8 exactly when it is below 1.
Tolerance == 1

\* line 226: when the unit is 2 ^ -28, the distance is below 10 ** -8
\* exactly when it is below 3 units (2 * 2 ^ -28 < 10 ** -8 < 3 * 2 ^ -28).
\* Coordinates k * 2 ^ -28 are floats, and every operation of the code
\* on them gives the result it gives on the integers k, scaled by a
\* power of 2.
FineTolerance == 3

\* lines 211-231: the loop over neighbors[i], neighbors[i + 1], ..;
\* st holds h, pathmapper, visited and, once line 228 is reached, the
\* returned route.
RECURSIVE Visit(_, _, _, _, _, _, _)
Visit(neighbors, i, st, length_travelled, current_path, end, step) ==
    IF i > Len(neighbors) \/ st.returned
    THEN st
    ELSE LET neighbor == neighbors[i]
             new_remaining_dist == Manhattan(end, neighbor)
             new_length_travelled == length_travelled + step
             new_path == NewPath(current_path, neighbor)
             key == <<new_length_travelled + new_remaining_dist,
                      neighbor[1], neighbor[2]>>
         IN  IF neighbor \in st.visited
             THEN Visit(neighbors, i + 1, st, length_travelled,
                        current_path, end, step)
             ELSE IF new_remaining_dist < astar.tolerance
             THEN [st EXCEPT !.returned = TRUE,
                             !.route = SnapToGoal(new_path, end)]
             ELSE Visit(neighbors, i + 1,
                        [st EXCEPT !.h = Append(@, key),
                                   !.pathmapper =
                                       Put(@, key, <<new_length_travelled, new_path>>),
                                   !.visited = @ \cup {neighbor}],
                        length_travelled, current_path, end, step)

\* lines 188-210: what a pass of the while loop starts from: the entry
\* popped, its length and path, the neighbors list, and the heap,
\* pathmapper and visited of the loop over the neighbors
Pass(key) ==
    [length_travelled |-> pathmapper[key][1],
     current_path |-> pathmapper[key][2],
     neighbors |-> Neighbors(1, pathmapper[key][2],
                             Direction(pathmapper[key][2], astar.start_direction),
                             astar.step_size),
     st |-> [h |-> HeapRest(h), pathmapper |-> pathmapper,
             visited |-> visited, returned |-> FALSE, route |-> <<>>]]

\* lines 188-231: one pass of the while loop
Expand(pass) ==
    Visit(pass.neighbors, 1, pass.st, pass.length_travelled, pass.current_path,
          astar.end, astar.step_size)

---------------------------------------------------------------------------
(* HybridPathfinderNew.make, lines 234-271 *)

\* line 262: list(anchors.values()) + [m2 + n2 * (w / 2 + leadend)]
Coords == anchors \o <<VAdd(m2, VScale(w \div 2 + leadend, n2))>>

\* self._pts[-1]
Last(s) == s[Len(s)]

\* s[1:]
Rest(s) == SubSeq(s, 2, Len(s))

NoSearch ==
    /\ astar = [start_direction |-> <<0, 0>>, start |-> <<0, 0>>,
                end |-> <<0, 0>>, step_size |-> 0, tolerance |-> Tolerance,
                origin |-> FloatOf(0), ret |-> <<>>]
    /\ h = <<>>
    /\ pathmapper = <<>>
    /\ visited = {}
    /\ popped = <<>>

\* line 260
Seed ==
    /\ pc = "make"
    /\ pts' = <<m1, VAdd(m1, VScale(w \div 2 + leadstart, n1))>>
    /\ hop' = 1
    /\ pc' = "hop"
    /\ UNCHANGED <<inputs, search, call>>

\* lines 265-267: getpts_simple finds a path
HopSimple ==
    /\ pc = "hop"
    /\ hop <= Len(Coords)
    /\ \E easypath \in {getpts_simple(VSub(Coords[hop], Last(pts)), Last(pts), Coords[hop])} :
           /\ easypath # <<>>
           /\ pts' = pts \o Rest(easypath)
    /\ hop' = hop + 1
    /\ UNCHANGED <<inputs, search, pc, call>>

\* HopAstar with connector1.normal as the start direction of the first hop
HopAstarSeeded ==
    /\ pc = "hop"
    /\ hop <= Len(Coords)
    /\ LET coord == Coords[hop]
           start == Last(pts)
           start_direction == IF hop = 1 THEN n1 ELSE VSub(coord, start)
           starting_dist == Manhattan(coord, start)
           key == <<starting_dist, start[1], start[2]>>
       IN  /\ getpts_simple(start_direction, start, coord) = <<>>
           /\ astar' = [start_direction |-> start_direction, start |-> start,
                        end |-> coord, step_size |-> step_size,
                        tolerance |-> Tolerance, origin |-> FloatOf(0),
                        ret |-> <<>>]
           /\ pathmapper' = [k \in {key} |-> <<starting_dist, <<start>>>>]
           /\ visited' = {start}
           /\ h' = <<key>>
    /\ pc' = "astar"
    /\ UNCHANGED <<inputs, pts, hop, popped, call>>

\* lines 265, 268-269 and 176-181: getpts_simple fails, getpts_astar starts
HopAstar ==
    /\ pc = "hop"
    /\ hop <= Len(Coords)
    /\ LET coord == Coords[hop]
           start == Last(pts)
           start_direction == VSub(coord, start)
           starting_dist == Manhattan(coord, start)
           key == <<starting_dist, start[1], start[2]>>
       IN  /\ getpts_simple(start_direction, start, coord) = <<>>
           /\ astar' = [start_direction |-> start_direction, start |-> start,
                        end |-> coord, step_size |-> step_size,
                        tolerance |-> Tolerance, origin |-> FloatOf(0),
                        ret |-> <<>>]
           /\ pathmapper' = [k \in {key} |-> <<starting_dist, <<start>>>>]
           /\ visited' = {start}
           /\ h' = <<key>>
    /\ pc' = "astar"
    /\ UNCHANGED <<inputs, pts, hop, popped, call>>

\* lines 187-231: a pass of the while loop that does not reach the goal
AstarStep ==
    /\ pc = "astar"
    /\ h # <<>>
    /\ \E pass \in {Pass(HeapTop(h))} : \E st \in {Expand(pass)} :
           /\ ~ st.returned
           /\ h' = st.h
           /\ pathmapper' = st.pathmapper
           /\ visited' = st.visited
    /\ popped' = HeapTop(h)
    /\ UNCHANGED <<inputs, pts, pc, hop, astar, call>>

\* lines 187-228 and 269: the pass that reaches the goal returns the
\* route, and make appends it
AstarReturn ==
    /\ pc = "astar"
    /\ h # <<>>
    /\ \E pass \in {Pass(HeapTop(h))} : \E st \in {Expand(pass)} :
           /\ st.returned
           /\ h' = st.h
           /\ pathmapper' = st.pathmapper
           /\ visited' = st.visited
           /\ astar' = [astar EXCEPT !.ret = st.route]
           /\ pts' = pts \o Rest(st.route)
    /\ popped' = HeapTop(h)
    /\ hop' = hop + 1
    /\ pc' = "hop"
    /\ UNCHANGED <<inputs, call>>

\* a failed search that leaves its end point on the route
AstarExhaustedAppendsEnd ==
    /\ pc = "astar"
    /\ h = <<>>
    /\ pts' = pts \o <<astar.end>>
    /\ hop' = hop + 1
    /\ pc' = "hop"
    /\ UNCHANGED <<inputs, search, call>>

\* lines 187, 232 and 269: the heap is empty, getpts_astar returns [],
\* and make appends [][1:]
AstarExhausted ==
    /\ pc = "astar"
    /\ h = <<>>
    /\ pts' = pts \o Rest(<<>>)
    /\ hop' = hop + 1
    /\ pc' = "hop"
    /\ UNCHANGED <<inputs, search, call>>

\* line 271
Finish ==
    /\ pc = "hop"
    /\ hop > Len(Coords)
    /\ pts' = pts \o <<m2>>
    /\ pc' = "done"
    /\ UNCHANGED <<inputs, hop, search, call>>

---------------------------------------------------------------------------
(* The design and the options make is run on *)

\* lattice points: hop endpoints
Lattice == {<<2 * i, 2 * j>> : i \in 0..MaxX, j \in 0..MaxY}

\* the bounding box of a component that encloses the whole lattice
Frame == <<-2, -2, 2 * MaxX + 2, 2 * MaxY + 2>>

\* bounding boxes of the other components: 2 x 2 boxes, either around a
\* lattice point (odd corners) or with lattice points as corners
Boxes ==
    {box \in {<<x, y, x + 2, y + 2>> : x \in (-1)..(2 * MaxX - 1),
                                       y \in (-1)..(2 * MaxY - 1)} :
        (box[1] - box[2]) % 2 = 0}

\* connector1: its normal and the lead that goes with it
StartPins == {[normal |-> <<1, 0>>, lead |-> 1], [normal |-> <<0, 1>>, lead |-> 0]}

\* the points anchors are drawn from
AnchorPoints == {<<0, 0>>, <<2, 2>>, <<0, 4>>}

RECURSIVE SeqsUpTo(_, _)
SeqsUpTo(S, n) ==
    IF n = 0
    THEN {<<>>}
    ELSE SeqsUpTo(S, n - 1)
             \cup {Append(s, x) : s \in {t \in SeqsUpTo(S, n - 1) : Len(t) = n - 1},
                                  x \in S}

NoCall == [a |-> <<0, 0>>, b |-> <<0, 0>>, c |-> <<0, 0>>, d |-> <<0, 0>>,
           returned |-> FALSE, ret |-> FALSE]

Init ==
    /\ \E box \in Boxes : components \in {{Frame}, {Frame, box}}
    /\ w = 2
    /\ leadend = 1
    /\ n2 = <<-1, 0>>
    /\ \E pin \in StartPins, lead_in \in Lattice :
           /\ lead_in[1] = 0
           /\ n1 = pin.normal
           /\ leadstart = pin.lead
           /\ m1 = VSub(lead_in, VScale(w \div 2 + leadstart, n1))
    /\ \E lead_out \in Lattice :
           /\ lead_out[1] = 2 * MaxX
           /\ m2 = VSub(lead_out, VScale(w \div 2 + leadend, n2))
    /\ anchors \in SeqsUpTo(AnchorPoints, MaxAnchors)
    /\ step_size \in {0, 2}
    /\ pts = <<>>
    /\ pc = "make"
    /\ hop = 0
    /\ NoSearch
    /\ call = NoCall

Next ==
    \/ Seed
    \/ HopSimple
    \/ HopAstar
    \/ AstarStep
    \/ AstarReturn
    \/ AstarExhausted
    \/ Finish

Spec == Init /\ [][Next]_vars

---------------------------------------------------------------------------
(* Stand-alone calls of overlapping *)

Points == (0..MaxCoord) \X (0..MaxCoord)

InitOverlapping ==
    /\ call \in [a : Points, b : Points, c : Points, d : Points,
                  returned : {FALSE}, ret : {FALSE}]
    /\ components = {}
    /\ m1 = <<0, 0>>
    /\ n1 = <<0, 0>>
    /\ m2 = <<0, 0>>
    /\ n2 = <<0, 0>>
    /\ w = 0
    /\ leadstart = 0
    /\ leadend = 0
    /\ anchors = <<>>
    /\ step_size = 0
    /\ pts = <<>>
    /\ pc = "overlapping"
    /\ hop = 0
    /\ NoSearch

CallOverlapping ==
    /\ pc = "overlapping"
    /\ ~ call.returned
    /\ call' = [call EXCEPT !.returned = TRUE,
                            !.ret = overlapping(call.a, call.b, call.c, call.d)]
    /\ UNCHANGED <<inputs, pts, pc, hop, search>>

NextOverlapping == CallOverlapping

SpecOverlapping == InitOverlapping /\ [][NextOverlapping]_vars

---------------------------------------------------------------------------
(* Stand-alone calls of overlapping on segments between far points *)

\* the distance of the far points from the origin, along both axes
Far == 86208176

FarPoints == {<<0, 0>>} \cup {<<Far + i, Far + j>> : i, j \in 0..MaxCoord}

InitOverlappingFar ==
    /\ components = {}
    /\ call \in [a : {<<0, 0>>}, b : FarPoints, c : FarPoints, d : FarPoints,
                  returned : {FALSE}, raised : {FALSE}, ret : {FALSE},
                  divisors : {<<>>}]
    /\ m1 = <<0, 0>>
    /\ n1 = <<0, 0>>
    /\ m2 = <<0, 0>>
    /\ n2 = <<0, 0>>
    /\ w = 0
    /\ leadstart = 0
    /\ leadend = 0
    /\ anchors = <<>>
    /\ step_size = 0
    /\ pts = <<>>
    /\ pc = "overlapping_far"
    /\ hop = 0
    /\ NoSearch

\* the call returns its result, or raises ZeroDivisionError at the first
\* division by zero
CallOverlappingFar ==
    /\ pc = "overlapping_far"
    /\ ~ call.returned
    /\ ~ call.raised
    /\ LET raises == ZeroDivision(call.a, call.b, call.c, call.d)
       IN  call' = [call EXCEPT
                       !.returned = ~ raises,
                       !.raised = raises,
                       !.ret = IF raises THEN FALSE
                               ELSE overlapping_rounded(call.a, call.b, call.c, call.d),
                       !.divisors = Divisors(call.a, call.b, call.c, call.d)]
    /\ UNCHANGED <<inputs, pts, pc, hop, search>>

NextOverlappingFar == CallOverlappingFar

SpecOverlappingFar == InitOverlappingFar /\ [][NextOverlappingFar]_vars

---------------------------------------------------------------------------
(* Stand-alone calls of no_obstacles *)

\* the points the segments of these calls join
Grid == (0..(2 * MaxX)) \X (0..(2 * MaxY))

\* bounding boxes inside the grid, with grid points on their edges
GridBoxes == {<<x, x, x + 2, x + 2>> : x \in 0..(MaxX - 1)}

\* the orders in which the for loop of line 106 can meet the components
Orders(S) ==
    {o \in SeqsUpTo(S, Cardinality(S)) :
        Len(o) = Cardinality(S) /\ {o[i] : i \in 1..Len(o)} = S}

\* lines 106-117: the for loop, over the components order[i], order[i + 1],
\* .. of the design
RECURSIVE no_obstacles_from(_, _, _)
no_obstacles_from(order, i, segment) ==
    IF i > Len(order)
    THEN TRUE
    ELSE IF \E e \in BoxEdges(order[i]) :
                overlapping(segment[1], segment[2], e[1], e[2])
    THEN FALSE
    ELSE no_obstacles_from(order, i + 1, segment)

InitNoObstacles ==
    /\ \E box \in GridBoxes : components \in {{Frame}, {Frame, box}}
    /\ call \in [segment : Grid \X Grid, order : Orders(components),
                  returned : {FALSE}, ret : {FALSE}]
    /\ m1 = <<0, 0>>
    /\ n1 = <<0, 0>>
    /\ m2 = <<0, 0>>
    /\ n2 = <<0, 0>>
    /\ w = 0
    /\ leadstart = 0
    /\ leadend = 0
    /\ anchors = <<>>
    /\ step_size = 0
    /\ pts = <<>>
    /\ pc = "no_obstacles"
    /\ hop = 0
    /\ NoSearch

CallNoObstacles ==
    /\ pc = "no_obstacles"
    /\ ~ call.returned
    /\ call' = [call EXCEPT !.returned = TRUE,
                            !.ret = no_obstacles_from(call.order, 1, call.segment)]
    /\ UNCHANGED <<inputs, pts, pc, hop, search>>

NextNoObstacles == CallNoObstacles

SpecNoObstacles == InitNoObstacles /\ [][NextNoObstacles]_vars

---------------------------------------------------------------------------
(* Stand-alone calls of no_obstacles on coordinates that are no ints: the
   coordinate <<i, j>> is the float i / 10 + j / 10 *)

\* y coordinates i / 10 + j / 10 with i <= j <= MaxTenth, x coordinates
\* 7 / 10 and 8 / 10
MaxTenth == 3

Tenths(c) ==
    FloatAdd(FloatDiv(FloatOf(c[1]), FloatOf(10)),
             FloatDiv(FloatOf(c[2]), FloatOf(10)))

TenthsPoint(pt) == <<Tenths(pt[1]), Tenths(pt[2])>>

\* the bounding boxes (0.0, i / 10, 1.0, i / 10 + 2.0)
TenthsBoxes ==
    {<<<<0, 0>>, <<i, 0>>, <<10, 0>>, <<i, 20>>>> : i \in 1..MaxTenth}

TenthsPoints ==
    {pt \in (({7, 8} \X {0}) \X ((0..MaxTenth) \X (0..MaxTenth))) :
        pt[2][1] <= pt[2][2]}

\* lines 106-117 for a segment and components in tenths
no_obstacles_tenths(segment) ==
    \A component \in components :
        ~ \E e \in BoxEdges(component) :
            overlapping_floats(TenthsPoint(segment[1]), TenthsPoint(segment[2]),
                               TenthsPoint(e[1]), TenthsPoint(e[2]))

InitNoObstaclesTenths ==
    /\ \E box \in TenthsBoxes : components = {box}
    /\ call \in [segment : TenthsPoints \X TenthsPoints,
                  returned : {FALSE}, ret : {FALSE}]
    /\ m1 = <<0, 0>>
    /\ n1 = <<0, 0>>
    /\ m2 = <<0, 0>>
    /\ n2 = <<0, 0>>
    /\ w = 0
    /\ leadstart = 0
    /\ leadend = 0
    /\ anchors = <<>>
    /\ step_size = 0
    /\ pts = <<>>
    /\ pc = "no_obstacles"
    /\ hop = 0
    /\ NoSearch

CallNoObstaclesTenths ==
    /\ pc = "no_obstacles"
    /\ ~ call.returned
    /\ call' = [call EXCEPT !.returned = TRUE,
                            !.ret = no_obstacles_tenths(call.segment)]
    /\ UNCHANGED <<inputs, pts, pc, hop, search>>

NextNoObstaclesTenths == CallNoObstaclesTenths

SpecNoObstaclesTenths == InitNoObstaclesTenths /\ [][NextNoObstaclesTenths]_vars

---------------------------------------------------------------------------
(* Stand-alone calls of getpts_simple *)

\* the start directions of these calls
Directions == {Disps[i] : i \in 1..Len(Disps)}

\* the bounding box that lies opposite to box, across the centre of the
\* lattice
Opposite(box) ==
    <<2 * MaxX - box[3], 2 * MaxY - box[4], 2 * MaxX - box[1], 2 * MaxY - box[2]>>

InitGetptsSimple ==
    /\ \E box \in Boxes :
           components \in {{Frame}, {Frame, box}, {Frame, box, Opposite(box)}}
    /\ call \in [start_direction : Directions, start : Lattice, end : Lattice,
                  returned : {FALSE}, ret : {<<>>}, tested : {<<>>}]
    /\ m1 = <<0, 0>>
    /\ n1 = <<0, 0>>
    /\ m2 = <<0, 0>>
    /\ n2 = <<0, 0>>
    /\ w = 0
    /\ leadstart = 0
    /\ leadend = 0
    /\ anchors = <<>>
    /\ step_size = 0
    /\ pts = <<>>
    /\ pc = "getpts_simple"
    /\ hop = 0
    /\ NoSearch

CallGetptsSimple ==
    /\ pc = "getpts_simple"
    /\ ~ call.returned
    /\ call' = [call EXCEPT
                   !.returned = TRUE,
                   !.ret = getpts_simple(call.start_direction, call.start, call.end),
                   !.tested = getpts_simple_tested(call.start_direction,
                                                   call.start, call.end)]
    /\ UNCHANGED <<inputs, pts, pc, hop, search>>

NextGetptsSimple == CallGetptsSimple

SpecGetptsSimple == InitGetptsSimple /\ [][NextGetptsSimple]_vars

---------------------------------------------------------------------------
(* Stand-alone calls of getpts_astar, lines 161-232, on coordinates in    *)
(* units of 2 ^ -28                                                       *)

\* the bounding box of a component that encloses Points
FineFrame == <<-2, -2, MaxCoord + 2, MaxCoord + 2>>

\* bounding boxes of the other components
FineBoxes == {<<x, y, x + 2, y + 2>> : x \in 1..MaxCoord, y \in (-1)..1}

\* the points searches start from
FineStarts == {<<0, 0>>, <<1, 0>>, <<1, 1>>}

\* the step sizes: below the tolerance and above it
FineSteps == {1, 2, 4}

\* the state of a call getpts_astar(start_direction, start, end, step)
\* after lines 176-181
InitAstar ==
    /\ \E box \in FineBoxes : components \in {{FineFrame}, {FineFrame, box}}
    /\ \E start_direction \in Directions, start \in FineStarts,
          end \in Points, step \in FineSteps :
           LET starting_dist == Manhattan(end, start)
               key == <<starting_dist, start[1], start[2]>>
           IN  /\ astar = [start_direction |-> start_direction, start |-> start,
                           end |-> end, step_size |-> step,
                           tolerance |-> FineTolerance, origin |-> FloatOf(0),
                           ret |-> <<>>]
               /\ pathmapper = [k \in {key} |-> <<starting_dist, <<start>>>>]
               /\ visited = {start}
               /\ h = <<key>>
               /\ step_size = step
               /\ m1 = start
               /\ m2 = end
               /\ pts = <<start>>
    /\ n1 = <<0, 0>>
    /\ n2 = <<0, 0>>
    /\ w = 0
    /\ leadstart = 0
    /\ leadend = 0
    /\ anchors = <<>>
    /\ popped = <<>>
    /\ pc = "astar"
    /\ hop = 1
    /\ call = NoCall

NextAstar ==
    \/ AstarStep
    \/ AstarReturn
    \/ AstarExhausted

SpecAstar == InitAstar /\ [][NextAstar]_vars

---------------------------------------------------------------------------
(* Stand-alone calls of getpts_astar, lines 161-232, in a design that     *)
(* does not enclose the search                                            *)

\* a search is followed until it has visited more than MaxVisited points;
\* the searches from (0, 0) to a point of Points that end visit fewer
MaxVisited == 24

\* the bounding boxes of the one component, if there is one: around the
\* start, around the point (2, 2), and away from both
OpenBoxes == {<<-1, -1, 1, 1>>, <<1, 1, 3, 3>>, <<5, 5, 7, 7>>}

\* the step sizes: every point of Points is on the grid of step 1, the
\* points with an odd coordinate are off the grid of step 2
OpenSteps == {1, 2}

\* the state of a call getpts_astar(start_direction, (0, 0), end, step)
\* after lines 176-181
InitAstarOpen ==
    /\ \E box \in OpenBoxes : components \in {{}, {box}}
    /\ \E start_direction \in Directions, end \in Points, step \in OpenSteps :
           LET start == <<0, 0>>
               starting_dist == Manhattan(end, start)
               key == <<starting_dist, start[1], start[2]>>
           IN  /\ astar = [start_direction |-> start_direction, start |-> start,
                           end |-> end, step_size |-> step,
                           tolerance |-> Tolerance, origin |-> FloatOf(0),
                        ret |-> <<>>]
               /\ pathmapper = [k \in {key} |-> <<starting_dist, <<start>>>>]
               /\ visited = {start}
               /\ h = <<key>>
               /\ step_size = step
               /\ m1 = start
               /\ m2 = end
               /\ pts = <<start>>
    /\ n1 = <<0, 0>>
    /\ n2 = <<0, 0>>
    /\ w = 0
    /\ leadstart = 0
    /\ leadend = 0
    /\ anchors = <<>>
    /\ popped = <<>>
    /\ pc = "astar"
    /\ hop = 1
    /\ call = NoCall

\* lines 187-231: a pass of the while loop that does not reach the goal,
\* in a search that is followed
AstarStepFollowed ==
    /\ Cardinality(visited) <= MaxVisited
    /\ AstarStep

NextAstarOpen ==
    \/ AstarStepFollowed
    \/ AstarReturn
    \/ AstarExhausted

\* the while loop of line 187 goes on as long as it can
SpecAstarOpen ==
    InitAstarOpen /\ [][NextAstarOpen]_vars /\ WF_vars(NextAstarOpen)

---------------------------------------------------------------------------
(* Stand-alone calls of getpts_astar, lines 161-232, on floats from       *)
(* 2 ^ 54 on, in a design without components                              *)

\* the start point (2 ^ 54 + 8, 2 ^ 54 + 8)
FarStart == <<8, 8>>

\* the end points: the floats 2 ^ 54 + 8 + 4 * x, 2 ^ 54 + 8 + 4 * y for
\* (x, y) in Points
FarEnds == {<<8 + 4 * p[1], 8 + 4 * p[2]>> : p \in Points}

\* the step sizes.  From 2 ^ 54 on, x + 1 and x - 1 are x as floats,
\* x + 3 is x + 4 and x - 3 is x - 4, and x + 4 and x - 4 are exact.
FarSteps == {1, 3, 4}

\* the state of a call getpts_astar(start_direction, start, end, step)
\* after lines 176-181; the coordinates are kept less 2 ^ 54
InitAstarFar ==
    /\ components = {}
    /\ \E start_direction \in Directions, end \in FarEnds, step \in FarSteps :
           LET start == FarStart
               starting_dist == Manhattan(end, start)
               key == <<starting_dist, start[1], start[2]>>
           IN  /\ astar = [start_direction |-> start_direction, start |-> start,
                           end |-> end, step_size |-> step,
                           tolerance |-> Tolerance, origin |-> Origin54,
                           ret |-> <<>>]
               /\ pathmapper = [k \in {key} |-> <<starting_dist, <<start>>>>]
               /\ visited = {start}
               /\ h = <<key>>
               /\ step_size = step
               /\ m1 = start
               /\ m2 = end
               /\ pts = <<start>>
    /\ n1 = <<0, 0>>
    /\ n2 = <<0, 0>>
    /\ w = 0
    /\ leadstart = 0
    /\ leadend = 0
    /\ anchors = <<>>
    /\ popped = <<>>
    /\ pc = "astar"
    /\ hop = 1
    /\ call = NoCall

SpecAstarFar == InitAstarFar /\ [][NextAstarOpen]_vars

---------------------------------------------------------------------------
(* Properties *)

Range(s) == {s[i] : i \in 1..Len(s)}

\* the lead-in and lead-out offset points
LeadIn == VAdd(m1, VScale(w \div 2 + leadstart, n1))

LeadOut == VAdd(m2, VScale(w \div 2 + leadend, n2))

Segment(i) == <<pts[i], pts[i + 1]>>

\* p, q and r lie on one line
Collinear(p, q, r) ==
    (q[1] - p[1]) * (r[2] - p[2]) = (q[2] - p[2]) * (r[1] - p[1])

\* the closed intervals [lo0, hi0] and [lo1, hi1] have a common point
Meet(lo0, hi0, lo1, hi1) == Max(lo0, lo1) <= Min(hi0, hi1)

C2_ExhaustionReported ==
    [][(pc = "astar" /\ h = <<>>) => pc' = "failed"]_vars

\* C3: the route never holds two consecutive identical vertices.
C3_NoZeroLengthSegment ==
    \A i \in 1..(Len(pts) - 1) : pts[i] # pts[i + 1]

\* the elements of s occur in t, in the order of s
RECURSIVE IsSubsequence(_, _)
IsSubsequence(s, t) ==
    IF s = <<>> THEN TRUE
    ELSE IF t = <<>> THEN FALSE
    ELSE IF Head(s) = Head(t) THEN IsSubsequence(Tail(s), Tail(t))
    ELSE IsSubsequence(s, Tail(t))

\* C4: the finished route starts m1, lead-in point, ends lead-out point,
\* m2, and holds every anchor as a vertex, in the order of the anchors.
C4_WaypointsInOrder ==
    pc = "done" =>
        /\ Len(pts) >= 4
        /\ pts[1] = m1
        /\ pts[2] = LeadIn
        /\ pts[Len(pts)] = m2
        /\ pts[Len(pts) - 1] = LeadOut
        /\ IsSubsequence(anchors, SubSeq(pts, 3, Len(pts) - 2))

\* C5: with a step size or a lead length that is not positive, make stops
\* before the first hop is routed.
C5_InvalidConfigRejected ==
    (step_size <= 0 \/ leadstart <= 0 \/ leadend <= 0) =>
        pc \in {"make", "rejected"} \/ (pc = "hop" /\ hop = 1)

\* what is left of a route once every vertex collinear with its two
\* neighbours is merged away
RECURSIVE Merged(_)
Merged(route) ==
    IF \E i \in 2..(Len(route) - 1) :
           Collinear(route[i - 1], route[i], route[i + 1])
    THEN LET i == CHOOSE i \in 2..(Len(route) - 1) :
                      Collinear(route[i - 1], route[i], route[i + 1])
         IN  Merged(SubSeq(route, 1, i - 1) \o SubSeq(route, i + 1, Len(route)))
    ELSE route

\* C6 (as claimed): without anchors and with a clear straight segment
\* from the lead-in to the lead-out point, the finished route is
\* [m1, lead-in, lead-out, m2] with its collinear vertices merged away.
C6_DirectRouteMerged ==
    (pc = "done" /\ anchors = <<>> /\ no_obstacles(<<LeadIn, LeadOut>>)) =>
        pts = Merged(<<m1, LeadIn, LeadOut, m2>>)

\* C6 (amended): without anchors, when the lead-in and the lead-out point
\* share an x or a y coordinate and the segment between them passes
\* no_obstacles, the finished route is exactly [m1, lead-in, lead-out, m2]:
\* no vertex is merged away.
C6_DirectRouteUnmerged ==
    (/\ pc = "done"
     /\ anchors = <<>>
     /\ (LeadIn[1] = LeadOut[1] \/ LeadIn[2] = LeadOut[2])
     /\ no_obstacles(<<LeadIn, LeadOut>>)) =>
        pts = <<m1, LeadIn, LeadOut, m2>>

\* C6 witness: such a finished route, with the lead-in point collinear
\* with its neighbours.
C6_Witness ==
    /\ pc = "done"
    /\ anchors = <<>>
    /\ LeadIn[2] = LeadOut[2]
    /\ no_obstacles(<<LeadIn, LeadOut>>)
    /\ Collinear(m1, LeadIn, LeadOut)
    /\ Len(pts) = 4

\* C7: every heappop of getpts_astar takes the one entry of the heap
\* that is smallest by f, then by x, then by y.
C7_PopsSmallest ==
    [][(pc = "astar" /\ h # <<>>) =>
          /\ Cardinality({i \in 1..Len(h) : h[i] = popped'}) = 1
          /\ \A i \in 1..Len(h) :
                 \/ popped'[1] < h[i][1]
                 \/ popped'[1] = h[i][1] /\ popped'[2] < h[i][2]
                 \/ popped'[1] = h[i][1] /\ popped'[2] = h[i][2]
                                         /\ popped'[3] <= h[i][3]]_vars

\* C7 witness: a pop that took one of several entries with the same f.
C7_Witness ==
    /\ pc = "astar"
    /\ Len(popped) = 3
    /\ \E i \in 1..Len(h) : h[i][1] = popped[1] /\ h[i] # popped

\* C8: overlapping gives the same answer with its two segments exchanged.
C8_Symmetric ==
    (call.returned /\ call.a # call.b /\ call.c # call.d) =>
        call.ret = overlapping(call.c, call.d, call.a, call.b)

\* C9: two vertical segments overlap exactly when they have the same x
\* and their closed y-intervals have a common point.
C9_VerticalPair ==
    (call.returned /\ call.a[1] = call.b[1] /\ call.c[1] = call.d[1]) =>
        (call.ret <=>
            /\ call.a[1] = call.c[1]
            /\ Meet(Min(call.a[2], call.b[2]), Max(call.a[2], call.b[2]),
                    Min(call.c[2], call.d[2]), Max(call.c[2], call.d[2])))

\* C10: two non-vertical segments of equal slope overlap exactly when
\* they lie on one line and their closed x-intervals have a common point.
C10_ParallelPair ==
    (/\ call.returned
     /\ call.a[1] # call.b[1]
     /\ call.c[1] # call.d[1]
     /\ (call.d[1] - call.c[1]) * (call.b[2] - call.a[2])
            = (call.b[1] - call.a[1]) * (call.d[2] - call.c[2])) =>
        (call.ret <=>
            /\ Collinear(call.a, call.b, call.c)
            /\ Meet(Min(call.a[1], call.b[1]), Max(call.a[1], call.b[1]),
                    Min(call.c[1], call.d[1]), Max(call.c[1], call.d[1])))

\* the point p lies on the boundary of the bounding box: on a corner or
\* on an edge
OnBox(p, box) ==
    \/ p[1] \in {box[1], box[3]} /\ box[2] <= p[2] /\ p[2] <= box[4]
    \/ p[2] \in {box[2], box[4]} /\ box[1] <= p[1] /\ p[1] <= box[3]

\* C11: a segment with an endpoint on the boundary of a bounding box, a
\* corner or an edge, does not pass no_obstacles, from whatever side it
\* reaches that point.
C11_TouchingBlocked ==
    (/\ call.returned
     /\ \E box \in components, i \in 1..2 : OnBox(call.segment[i], box)) =>
        ~ call.ret

\* C12: when start_direction points against end - start (negative dot
\* product), getpts_simple returns the empty route and has passed no
\* segment to no_obstacles.
C12_GuardReturnsEmpty ==
    (/\ call.returned
     /\ Dot(call.start_direction, VSub(call.end, call.start)) < 0) =>
        call.ret = <<>> /\ call.tested = <<>>

\* C12 witness: a call against the start direction, returned, whose
\* direct segment would have passed the clearance test.
C12_Witness ==
    /\ call.returned
    /\ Dot(call.start_direction, VSub(call.end, call.start)) < 0
    /\ call.start[2] = call.end[2]
    /\ no_obstacles(<<call.start, call.end>>)
    /\ Cardinality(components) = 2

\* C13: when the dot product of start_direction and end - start is not
\* negative, start and end share an x or a y coordinate and the segment
\* [start, end] passes no_obstacles, getpts_simple returns [start, end].
C13_DirectSegment ==
    (/\ call.returned
     /\ Dot(call.start_direction, VSub(call.end, call.start)) >= 0
     /\ (call.start[1] = call.end[1] \/ call.start[2] = call.end[2])
     /\ no_obstacles(<<call.start, call.end>>)) =>
        call.ret = <<call.start, call.end>>

\* C13 witness: such a call along the start direction, between two
\* different points, returned, with the direct segment as the only test.
C13_Witness ==
    /\ call.returned
    /\ Dot(call.start_direction, VSub(call.end, call.start)) > 0
    /\ call.start[1] = call.end[1]
    /\ call.ret = <<call.start, call.end>>
    /\ call.tested = <<(<<call.start, call.end>>)>>

\* the routes getpts_simple tries, in the order in which it tries them: the
\* single segment (for start and end with a common coordinate), the elbow
\* that bends at (start.x, end.y), the elbow that bends at (end.x, start.y),
\* the 3-segment path that bends halfway along the longer of the two
\* extents, along x when they are equal
Candidates(start, end) ==
    LET midx == (start[1] + end[1]) \div 2
        midy == (start[2] + end[2]) \div 2
    IN  (IF start[1] = end[1] \/ start[2] = end[2]
         THEN <<(<<start, end>>)>>
         ELSE <<>>)
        \o <<(<<start, <<start[1], end[2]>>, end>>),
              (<<start, <<end[1], start[2]>>, end>>),
              (IF Abs(end[1] - start[1]) >= Abs(end[2] - start[2])
               THEN <<start, <<midx, start[2]>>, <<midx, end[2]>>, end>>
               ELSE <<start, <<start[1], midy>>, <<end[1], midy>>, end>>)>>

\* every leg of the route passes no_obstacles
LegsClear(route) ==
    \A i \in 1..(Len(route) - 1) : no_obstacles(<<route[i], route[i + 1]>>)

\* C20: when the dot product of start_direction and end - start is not
\* negative, getpts_simple returns the first of its candidate routes
\* (single segment, elbow at (start.x, end.y), elbow at (end.x, start.y),
\* 3-segment path) whose legs all pass no_obstacles, and the empty route
\* when none does.
C20_FirstClearCandidate ==
    (/\ call.returned
     /\ Dot(call.start_direction, VSub(call.end, call.start)) >= 0) =>
        LET cand == Candidates(call.start, call.end)
            clear == {i \in 1..Len(cand) : LegsClear(cand[i])}
        IN  IF clear = {}
            THEN call.ret = <<>>
            ELSE call.ret = cand[CHOOSE i \in clear : \A j \in clear : i <= j]

\* C20 witness (3-segment path): a returned call between points whose
\* extents along x and y are equal, neither of whose elbows is clear, that
\* bends halfway along x.
C20_WitnessTie ==
    /\ call.returned
    /\ Abs(call.end[1] - call.start[1]) = Abs(call.end[2] - call.start[2])
    /\ Len(call.ret) = 4
    /\ call.ret[2][2] = call.start[2]
    /\ call.ret[2][1] # call.start[1]

\* C20 witness: a returned call between points without a common
\* coordinate, both of whose elbows are clear, that bends at
\* (start.x, end.y).
C20_Witness ==
    /\ call.returned
    /\ Dot(call.start_direction, VSub(call.end, call.start)) >= 0
    /\ call.start[1] # call.end[1]
    /\ call.start[2] # call.end[2]
    /\ LegsClear(<<call.start, <<call.start[1], call.end[2]>>, call.end>>)
    /\ LegsClear(<<call.start, <<call.end[1], call.start[2]>>, call.end>>)
    /\ call.ret = <<call.start, <<call.start[1], call.end[2]>>, call.end>>

\* (p - o) x (q - o)
Cross(o, p, q) == (p[1] - o[1]) * (q[2] - o[2]) - (p[2] - o[2]) * (q[1] - o[1])

\* the point p lies on the closed segment from a to b
OnSegment(p, a, b) ==
    /\ Cross(a, b, p) = 0
    /\ Min(a[1], b[1]) <= p[1]
    /\ p[1] <= Max(a[1], b[1])
    /\ Min(a[2], b[2]) <= p[2]
    /\ p[2] <= Max(a[2], b[2])

\* the closed segments from a to b and from c to d have a common point:
\* an endpoint of one lies on the other, or each segment has its
\* endpoints strictly on the two sides of the other
CommonPoint(a, b, c, d) ==
    \/ OnSegment(a, c, d)
    \/ OnSegment(b, c, d)
    \/ OnSegment(c, a, b)
    \/ OnSegment(d, a, b)
    \/ /\ Cross(c, d, a) * Cross(c, d, b) < 0
       /\ Cross(a, b, c) * Cross(a, b, d) < 0

\* C17: when exactly one of the two segments is vertical, or neither is
\* and their slopes differ, overlapping returns true exactly when the two
\* closed segments have a common point.
C17_TrueIffCommonPoint ==
    LET a == call.a
        b == call.b
        c == call.c
        d == call.d
    IN  /\ call.returned
        /\ \/ (a[1] = b[1]) # (c[1] = d[1])
           \/ /\ a[1] # b[1]
              /\ c[1] # d[1]
              /\ (d[1] - c[1]) * (b[2] - a[2]) # (b[1] - a[1]) * (d[2] - c[2])
        => (call.ret <=> CommonPoint(a, b, c, d))

\* C18: no_obstacles returns true exactly when, for every bounding box,
\* none of the four boundary segments (p, q), (p, r), (r, s), (q, s)
\* overlaps the segment; the components may be met in any order.
C18_ClearIffNoEdgeOverlaps ==
    call.returned =>
        /\ call.ret <=>
               \A box \in components :
                   LET p == <<box[1], box[2]>>
                       q == <<box[1], box[4]>>
                       r == <<box[3], box[2]>>
                       s == <<box[3], box[4]>>
                   IN  /\ ~ overlapping(call.segment[1], call.segment[2], p, q)
                       /\ ~ overlapping(call.segment[1], call.segment[2], p, r)
                       /\ ~ overlapping(call.segment[1], call.segment[2], r, s)
                       /\ ~ overlapping(call.segment[1], call.segment[2], q, s)
        /\ \A order \in Orders(components) :
               no_obstacles_from(order, 1, call.segment) = call.ret

\* C18 witness: a call on two components that returned false for a
\* segment the component met first is clear of: only the top edge (q, s)
\* of the component met second overlaps it.
C18_Witness ==
    /\ call.returned
    /\ ~ call.ret
    /\ Len(call.order) = 2
    /\ no_obstacles_from(<<call.order[1]>>, 1, call.segment)
    /\ LET box == call.order[2]
           p == <<box[1], box[2]>>
           q == <<box[1], box[4]>>
           r == <<box[3], box[2]>>
           s == <<box[3], box[4]>>
       IN  /\ ~ overlapping(call.segment[1], call.segment[2], p, q)
           /\ ~ overlapping(call.segment[1], call.segment[2], p, r)
           /\ ~ overlapping(call.segment[1], call.segment[2], r, s)
           /\ overlapping(call.segment[1], call.segment[2], q, s)

\* C19: every division a call of overlapping executes has a divisor that
\* is not zero, whatever the four points, also when the two endpoints of a
\* segment coincide.
C19_NoZeroDivisor ==
    \A i \in 1..Len(call.divisors) : call.divisors[i].m # <<>>

\* C14: a route getpts_astar returns that is not empty starts with start
\* and ends with end.
C14_RouteJoinsStartAndEnd ==
    astar.ret # <<>> =>
        /\ Len(astar.ret) >= 2
        /\ astar.ret[1] = astar.start
        /\ astar.ret[Len(astar.ret)] = astar.end

\* C14 witness: getpts_astar has returned a route of three and more
\* vertices whose last grid point, within the tolerance of end, was not
\* end: the last segment is oblique.
C14_Witness ==
    /\ pc = "hop"
    /\ Len(astar.ret) >= 3
    /\ astar.ret[Len(astar.ret) - 1][1] # astar.end[1]
    /\ astar.ret[Len(astar.ret) - 1][2] # astar.end[2]

\* C15: every segment between consecutive vertices of a route
\* getpts_astar returns passes no_obstacles, the segments merged from
\* several steps included.
C15_AstarSegmentsClear ==
    \A i \in 1..(Len(astar.ret) - 1) :
        no_obstacles(<<astar.ret[i], astar.ret[i + 1]>>)

\* no two consecutive vertices of the path are equal
NoRepeat(path) == \A i \in 1..(Len(path) - 1) : path[i] # path[i + 1]

\* C16: with a positive step size, no path getpts_astar stores in
\* pathmapper or returns holds two consecutive identical vertices.
C16_NoRepeatedVertex ==
    astar.step_size > 0 =>
        /\ NoRepeat(astar.ret)
        /\ \A k \in DOMAIN pathmapper : NoRepeat(pathmapper[k][2])

\* lines 188-189: the path of the entry the next heappop takes
CurrentPath == pathmapper[HeapTop(h)][2]

\* the first segment of the path does not go against start_direction, and
\* no segment goes against the segment before it
Forward(path, start_direction) ==
    /\ Len(path) >= 2 => Dot(VSub(path[2], path[1]), start_direction) >= 0
    /\ \A i \in 1..(Len(path) - 2) :
           Dot(VSub(path[i + 1], path[i]), VSub(path[i + 2], path[i + 1])) >= 0

\* C21: the neighbors of an expansion of getpts_astar lie in directions
\* whose dot product with the travel direction (start_direction for a path
\* of one point, the vector between the last two vertices otherwise) is
\* not negative, and no path stored in pathmapper, the paths with a
\* vertex replaced by a collinear neighbor included, reverses direction.
C21_NoBacktracking ==
    /\ (pc = "astar" /\ h # <<>>) =>
           \A nextpt \in Range(Neighbors(1, CurrentPath,
                                         Direction(CurrentPath, astar.start_direction),
                                         astar.step_size)) :
               Dot(VSub(nextpt, Last(CurrentPath)),
                   Direction(CurrentPath, astar.start_direction)) >= 0
    /\ \A key \in DOMAIN pathmapper : Forward(pathmapper[key][2], astar.start_direction)

\* C21 witness: the next expansion is from a path with a turn, whose last
\* segment is longer than a step: its last vertex replaced a collinear
\* one, and a neighbor of the expansion is clear.
C21_Witness ==
    /\ pc = "astar"
    /\ h # <<>>
    /\ Len(CurrentPath) >= 3
    /\ Manhattan(CurrentPath[Len(CurrentPath)], CurrentPath[Len(CurrentPath) - 1])
           > astar.step_size
    /\ Neighbors(1, CurrentPath, Direction(CurrentPath, astar.start_direction),
                 astar.step_size) # <<>>

\* no three consecutive vertices of the path lie on one line
NoCollinearTriple(path) ==
    \A i \in 1..(Len(path) - 2) : ~ Collinear(path[i], path[i + 1], path[i + 2])

\* C22: no path stored in pathmapper and no route getpts_astar returns
\* holds three consecutive collinear vertices.
C22_NoCollinearTriple ==
    /\ NoCollinearTriple(astar.ret)
    /\ \A key \in DOMAIN pathmapper : NoCollinearTriple(pathmapper[key][2])

\* C22 witness: getpts_astar has returned a route with a turn and a segment
\* longer than a step, and has stored a path with a turn whose last
\* segment is longer than a step: collinear neighbors replaced vertices.
C22_Witness ==
    /\ pc = "hop"
    /\ Len(astar.ret) >= 4
    /\ \E i \in 1..(Len(astar.ret) - 2) :
           Manhattan(astar.ret[i], astar.ret[i + 1]) > astar.step_size
    /\ \E key \in DOMAIN pathmapper :
           /\ Len(pathmapper[key][2]) >= 3
           /\ Manhattan(Last(pathmapper[key][2]),
                        pathmapper[key][2][Len(pathmapper[key][2]) - 1])
                  > astar.step_size

StillSearching == (pc = "astar" /\ Cardinality(visited) > MaxVisited) => h # <<>>

\* C24: a hop for which getpts_simple and getpts_astar both fail appends
\* no vertex: when the heap of getpts_astar has run empty, make goes on to
\* the next coord with self._pts as it was before the hop, and the calls
\* for the next hop start from its last vertex.
C24_FailedHopAppendsNothing ==
    [][/\ (pc = "astar" /\ h = <<>>) =>
              (pts' = pts /\ hop' = hop + 1 /\ pc' = "hop")
       /\ (pc = "hop" /\ pc' = "astar") =>
              (astar'.start = Last(pts) /\ astar'.end = Coords[hop])]_vars

\* C24 witness: getpts_astar has failed for a hop that is not the last
\* one: its heap is empty, it returned [], and the route still ends with
\* the start of the failed hop while the next coord waits.
C24_Witness ==
    /\ pc = "hop"
    /\ hop > 1
    /\ hop <= Len(Coords)
    /\ visited # {}
    /\ h = <<>>
    /\ astar.ret = <<>>
    /\ astar.end = Coords[hop - 1]
    /\ astar.end # astar.start
    /\ Last(pts) = astar.start

\* no two points of a search are more than MaxMultiple steps apart in x or
\* in y
MaxMultiple == 4 * MaxCoord

\* end - start is, within the tolerance of line 226 in Manhattan distance,
\* an integer multiple of the step size in x and in y
OnGrid ==
    \E i, j \in (-MaxMultiple)..MaxMultiple :
        Manhattan(VSub(astar.end, astar.start),
                  <<i * astar.step_size, j * astar.step_size>>) < astar.tolerance

\* C25: getpts_astar returns a route that is not empty only if end - start
\* is, within the tolerance, an integer multiple of step_size in both x
\* and y.
C25_ReturnsOnlyOnGrid == astar.ret # <<>> => OnGrid

\* the segment lies strictly inside the bounding box, coordinates in tenths
StrictlyInside(segment, box) ==
    \A i \in 1..2 :
        /\ FloatCmp(Tenths(box[1]), Tenths(segment[i][1])) < 0
        /\ FloatCmp(Tenths(segment[i][1]), Tenths(box[3])) < 0
        /\ FloatCmp(Tenths(box[2]), Tenths(segment[i][2])) < 0
        /\ FloatCmp(Tenths(segment[i][2]), Tenths(box[4])) < 0

\* C26: no_obstacles reports clear every segment that lies strictly
\* inside the bounding box of each component, touching none of its edges.
C26_InsideIsClear ==
    (call.returned /\ \A box \in components : StrictlyInside(call.segment, box))
        => call.ret

\* the displacement of the hop about to be made: coord - self._pts[-1]
Displacement == VSub(Coords[hop], Last(pts))

\* C27: on every hop of make the start direction is the displacement of the
\* hop, coord - self._pts[-1], whatever the normals of the pins are: the
\* guard of line 132 holds for it, so the hop is routed as getpts_simple
\* routes without the guard, and getpts_astar is called, with that
\* direction, only where this finds no route.
C27_HopDirectionIsDisplacement ==
    [][ (pc = "hop" /\ hop <= Len(Coords)) =>
            /\ Dot(Displacement, Displacement) >= 0
            /\ pc' = "hop" =>
                   /\ getpts_simple_any_direction(Displacement, Last(pts), Coords[hop]) # <<>>
                   /\ pts' = pts \o Rest(getpts_simple_any_direction(
                                             Displacement, Last(pts), Coords[hop]))
            /\ pc' = "astar" =>
                   /\ getpts_simple_any_direction(Displacement, Last(pts), Coords[hop]) = <<>>
                   /\ astar'.start_direction = Displacement
                   /\ astar'.start = Last(pts)
                   /\ astar'.end = Coords[hop]
      ]_vars

\* C27 witness: the first hop was routed by getpts_simple, with no search
\* started, although the normal of the start pin points away from the
\* target of the hop.
C27_Witness ==
    /\ pc = "hop"
    /\ hop = 2
    /\ Len(pts) > 2
    /\ visited = {}
    /\ Dot(n1, VSub(Coords[1], pts[2])) < 0

\* the heap entry key has an entry in pathmapper, whose path ends at the
\* point of the key and whose length_travelled, with the Manhattan
\* distance from there to end, gives the tot_dist of the key
Mapped(key) ==
    /\ key \in DOMAIN pathmapper
    /\ Last(pathmapper[key][2]) = <<key[2], key[3]>>
    /\ key[1] = pathmapper[key][1] + Manhattan(astar.end, <<key[2], key[3]>>)

\* C28: while getpts_astar searches, the entries of the heap are entries
\* of visited points, no two of the same point, and each has an entry in
\* pathmapper under its key, whose path ends at the point of the key and
\* whose tot_dist is the stored length_travelled plus the Manhattan
\* distance from the point to end.
C28_HeapEntriesAreMapped ==
    pc = "astar" =>
        /\ \A i \in 1..Len(h) : <<h[i][2], h[i][3]>> \in visited
        /\ \A i, j \in 1..Len(h) :
               <<h[i][2], h[i][3]>> = <<h[j][2], h[j][3]>> => i = j
        /\ \A i \in 1..Len(h) : Mapped(h[i])

===========================================================================
